---- MODULE Spec2Model ----
(***************************************************************************)
(* Model of the MongoDB -> Elasticsearch synchronisation engine            *)
(* (stage0_search_api): SyncServices (source/services/sync_services.py),   *)
(* ElasticUtils (source/utils/elastic_utils.py) and MongoUtils             *)
(* (source/utils/mongo_utils.py for create_index_card, src/utils/          *)
(* mongo_utils.py for get_documents_since, the only place it is defined).  *)
(*                                                                         *)
(* A datetime is a natural number (a tick of the wall clock); an ISO-8601  *)
(* string is the record [iso |-> t]; an Optional value is <<>> (None) or   *)
(* <<v>>.  A sync invocation is a process r \in Runs whose sync_id         *)
(* (uuid4) is r itself; its handler is cut at every call that leaves the   *)
(* process (history read, source read, bulk upsert, history write) so that *)
(* two invocations can interleave.                                         *)
(***************************************************************************)
EXTENDS Integers, Sequences, FiniteSets, TLC

VARIABLES
    now,        \* wall clock (datetime.now())
    batchSize,  \* Config.SYNC_BATCH_SIZE
    source,     \* MongoDB: collection name -> sequence of documents (natural order)
    index,      \* Elasticsearch search index: _id -> index card
    history,    \* Elasticsearch sync index: _id -> sync_doc
    run,        \* per invocation: the handler's locals and its position
    obs,        \* per invocation: what an observer of the calls has seen
    faults,     \* number of failures the environment has injected so far
    bulkIn,     \* bulk_upsert_documents called on its own: its arguments
    bulkOut,    \* ... and what it returned
    period,     \* Config.ELASTIC_SYNC_PERIOD
    reply,      \* the last call of a one-step operation and what it answered
    legacy      \* the sync_collection of src/services (index_as): locals and position

vars == <<now, batchSize, source, index, history, run, obs, faults, bulkIn, bulkOut,
          period, reply, legacy>>

mainVars == <<now, batchSize, source, index, history, run, obs, faults>>

bulkVars == <<bulkIn, bulkOut>>

\* What the handlers of sync_all_collections / sync_collection never touch.
sideVars == <<bulkIn, bulkOut, period, reply, legacy>>

----------------------------------------------------------------------------
(* Bounds of the model *)

MaxTime == 3

MaxDocs == 2

MaxOtherDocs == 1

MaxBatch == 2

MaxCount == 3

MaxFaults == 1

MaxCards == 5

MaxPeriod == 1

MaxLimit == 2

MaxRequest == 1

MaxItems == 5

MaxPage == 4

MaxPageSize == 3

MaxStored == 3

MaxLegacyDocs == 3

MaxHits == 2

MaxLegacyRuns == 2

(* Program constants *)

Epoch == 0

HttpOk == 200

HttpCreated == 201

\* Config.PAGE_SIZE, the page size of a request that gives none.
PAGE_SIZE == 10

HttpBadRequest == 400

----------------------------------------------------------------------------
(* Generic helpers *)

None == <<>>

Some(v) == <<v>>

Min(a, b) == IF a < b THEN a ELSE b

Sat(n) == Min(n, MaxCount)

Take(s, n) == SubSeq(s, 1, Min(n, Len(s)))

Range(s) == {s[i] : i \in 1..Len(s)}

SeqsUpTo(S, n) == UNION {[1..k -> S] : k \in 0..n}

Isoformat(t) == [iso |-> t]

Fromisoformat(s) == s.iso

----------------------------------------------------------------------------
(* Configuration and data *)

Runs == {"r1", "r2"}

CollectionNames == <<"bots", "chains">>

Collections == Range(CollectionNames)

DocIds(c) == IF c = "bots" THEN <<"b1", "b2", "b3">> ELSE <<"c1", "c2">>

DocCap(c) == IF c = "bots" THEN MaxDocs ELSE MaxOtherDocs

\* last_saved of a document: absent, or holding atTime as a datetime.
LastSaved == {[present |-> FALSE, at |-> Epoch, datetime |-> TRUE],
              [present |-> TRUE, at |-> 1, datetime |-> TRUE]}

\* last_saved holding atTime as text (an ISO string) instead of a datetime.
TextLastSaved == [present |-> TRUE, at |-> 1, datetime |-> FALSE]

Tokens == {[roles |-> {"admin"}], [roles |-> {"user"}]}

DocsOf(c, ls) == [i \in 1..Len(ls) |-> [id |-> DocIds(c)[i], last_saved |-> ls[i]]]

InitialSources ==
    {[c \in Collections |-> DocsOf(c, f[c])] :
        f \in {g \in [Collections -> SeqsUpTo(LastSaved, MaxDocs)] :
                  \A c \in Collections : Len(g[c]) <= Min(DocCap(c), Len(DocIds(c)))}}

----------------------------------------------------------------------------
(* MongoUtils *)

\* The filter of get_documents_since: none when since_time is None (or falsy),
\* else {"last_saved.atTime": {"$gt": since_time}}; a document without the
\* field does not match a $gt filter.
Matches(d, since_time) ==
    \/ since_time = None
    \/ /\ d.last_saved.present
       /\ d.last_saved.datetime
       /\ d.last_saved.at > since_time[1]

\* get_documents_since: the cursor over the matching documents, or, when the
\* query raises (reachable = FALSE), the empty iterator of the except branch.
get_documents_since(c, since_time, reachable) ==
    IF reachable
    THEN SelectSeq(source[c], LAMBDA d : Matches(d, since_time))
    ELSE <<>>

\* create_index_card: the card of one document ({} is <<>>, never produced
\* for the documents of this model).
create_index_card(c, d) ==
    [collection_id   |-> d.id,
     collection_name |-> c,
     payload_key     |-> c,
     payload         |-> d,
     last_saved      |-> IF d.last_saved.present
                         THEN Isoformat(d.last_saved.at)
                         ELSE Isoformat(now)]

\* The card-building loop of _sync_single_collection (lines 313-318).
IndexCards(c, docs) == [i \in 1..Len(docs) |-> create_index_card(c, docs[i])]

----------------------------------------------------------------------------
(* ElasticUtils *)

\* A bulk response: client.bulk raised, or the items it returned.
TransportError == [raised |-> TRUE, items |-> <<>>]

BulkResponse(items) == [raised |-> FALSE, items |-> items]

\* What the index answers to a bulk request of n operations: one status per
\* operation (the set rejected holds the positions the index refuses).
BulkItems(cards, rejected, idx) ==
    [i \in 1..Len(cards) |->
        IF i \in rejected THEN HttpBadRequest
        ELSE IF cards[i].collection_id \in DOMAIN idx THEN HttpOk ELSE HttpCreated]

\* The index after the bulk request: every accepted card is stored under its
\* collection_id, a later operation of the same request overwriting an earlier.
RECURSIVE BulkApply(_, _, _, _)
BulkApply(cards, items, idx, i) ==
    IF i > Len(cards) THEN idx
    ELSE BulkApply(cards, items,
                   IF items[i] \in {HttpOk, HttpCreated}
                   THEN [k \in DOMAIN idx \cup {cards[i].collection_id} |->
                            IF k = cards[i].collection_id THEN cards[i] ELSE idx[k]]
                   ELSE idx,
                   i + 1)

\* bulk_upsert_documents with the failures counted over the batch, not as the
\* items left once the successes are taken away.
bulk_upsert_failed_is_len(documents, response) ==
    IF documents = <<>>
    THEN [success |-> 0, failed |-> 0, contacted |-> FALSE]
    ELSE IF response.raised
    THEN [success |-> 0, failed |-> Len(documents), contacted |-> TRUE]
    ELSE [success   |-> Cardinality({i \in 1..Len(response.items) :
                                        response.items[i] \in {HttpOk, HttpCreated}}),
          failed    |-> Len(response.items),
          contacted |-> TRUE]

\* bulk_upsert_documents: response is what client.bulk does when called;
\* contacted tells whether client.bulk was called at all.
bulk_upsert_documents(documents, response) ==
    IF documents = <<>>
    THEN [success |-> 0, failed |-> 0, contacted |-> FALSE]
    ELSE IF response.raised
    THEN [success |-> 0, failed |-> Len(documents), contacted |-> TRUE]
    ELSE LET success_count == Cardinality({i \in 1..Len(response.items) :
                                              response.items[i] \in {HttpOk, HttpCreated}})
             failed_count  == Len(response.items) - success_count
         IN  [success |-> success_count, failed |-> failed_count, contacted |-> TRUE]

\* save_sync_history: the sync_doc indexed under sync_id.
SyncDoc(sync_id, start_time, collections) ==
    [id |-> sync_id, started_at |-> Isoformat(start_time), collections |-> collections]

\* get_sync_history(limit=1): the hits sorted by started_at descending, cut to
\* one; [] when the search raises.
get_sync_history_1(reachable) ==
    IF ~reachable \/ DOMAIN history = {} THEN <<>>
    ELSE LET top == CHOOSE k \in DOMAIN history :
                        \A j \in DOMAIN history :
                            history[j].started_at.iso <= history[k].started_at.iso
         IN  <<history[top]>>

\* get_latest_sync_time: Optional[datetime].
get_latest_sync_time(reachable) ==
    LET h == get_sync_history_1(reachable)
    IN  IF h # <<>> THEN Some(Fromisoformat(h[1].started_at)) ELSE None

----------------------------------------------------------------------------
(* SyncServices: helpers *)

\* _get_latest_sync_time: the beginning of time when there is no history.
GetLatestSyncTime(reachable) ==
    LET latest_time == get_latest_sync_time(reachable)
    IN  IF latest_time = None THEN Some(Epoch) ELSE latest_time

\* _validate_admin_access with the check of the role left out.
validate_admin_access_skipped(token) == TRUE

\* _validate_admin_access: TRUE when it returns, FALSE when it raises
\* SyncError(AdminRequired).
IsAdmin(token) == "admin" \in token.roles

AdminRequired == "Admin role required for sync operations"

\* The collection result with the read of the collection counted as a document.
CollectionResultCountsRead(name, count, end_time) ==
    [name |-> name, count |-> count + 1, end_time |-> Isoformat(end_time)]

CollectionResult(name, count, end_time) ==
    [name |-> name, count |-> count, end_time |-> Isoformat(end_time)]

\* _build_sync_result / _build_collection_sync_result: what the caller gets.
BuildSyncResult(sync_id, start_time, collection_results) ==
    [id |-> sync_id, start_time |-> Isoformat(start_time), collections |-> collection_results]

BuildCollectionSyncResult(sync_id, collection_name, start_time, total_synced) ==
    [id |-> sync_id, start_time |-> Isoformat(start_time),
     collections |-> <<CollectionResult(collection_name, total_synced, now)>>]

----------------------------------------------------------------------------
(* State of one invocation *)

IdleRun ==
    [pc                 |-> "IDLE",
     kind               |-> "none",
     names              |-> <<>>,
     start_time         |-> Epoch,
     latest_sync_time   |-> None,
     ci                 |-> 0,
     batch_documents    |-> <<>>,
     index_cards        |-> <<>>,
     batch_count        |-> 0,
     total_synced       |-> 0,
     collection_results |-> <<>>,
     result             |-> None,
     error              |-> "none",
     token              |-> [roles |-> {}]]

IdleObs ==
    [reads     |-> 0,       \* get_documents_since calls for the current collection
     matching  |-> None,    \* matching documents at the first of these calls
     seen      |-> {},      \* ids the batches of the current collection held
     reread    |-> FALSE,   \* a batch held a document an earlier batch held
     readLog   |-> <<>>,    \* per finished collection: matching, reads, bulk calls
     srcError  |-> FALSE,   \* a source read of this run failed
     failed    |-> {},      \* documents whose upsert was reported failed
     partial   |-> FALSE,   \* a bulk response rejected some cards
     storeTop  |-> None,    \* most recent start_time stored when the watermark was read
     indexBefore |-> <<>>,  \* the search index when the watermark was read
     written   |-> {},      \* ids of the documents saved again since the run's start_time was taken
     saveError |-> FALSE]   \* the history write of this run failed

RunOrder == <<"r1", "r2">>

Earlier(r) == {RunOrder[j] : j \in {i \in 1..Len(RunOrder) : \E k \in 1..Len(RunOrder) : RunOrder[k] = r /\ i < k}}

CanFail == faults < MaxFaults

\* The documents of the source were last saved at tick 1; the service starts
\* at tick 2.
MainInit ==
    /\ now = 2
    /\ batchSize \in 1..MaxBatch
    /\ source \in InitialSources
    /\ index = <<>>
    /\ history = <<>>
    /\ run = [r \in Runs |-> IdleRun]
    /\ obs = [r \in Runs |-> IdleObs]
    /\ faults = 0

NoCall == [documents |-> <<>>, response |-> BulkResponse(<<>>)]

NoReturn == [success |-> 0, failed |-> 0, contacted |-> FALSE]

\* No one-step operation has been called yet.
NoReply == [op |-> "none", token |-> [roles |-> {}], error |-> "none", value |-> <<>>]

\* The sync_collection of src/services has not been called yet.
IdleLegacy ==
    [pc                |-> "IDLE",
     collection_name   |-> "none",
     index_as          |-> None,
     start_time        |-> Epoch,
     latest_sync_time  |-> None,
     index_cards       |-> <<>>,
     total_synced      |-> 0,
     collection_result |-> None,
     result            |-> None,
     calls             |-> 0,      \* calls made so far
     read              |-> 0,      \* documents the last batch took off the cursor
     early             |-> FALSE]  \* the loop ended after a batch of batchSize documents

SideInit ==
    /\ bulkIn = NoCall
    /\ bulkOut = NoReturn
    /\ period = 0
    /\ reply = NoReply
    /\ legacy = IdleLegacy

Init ==
    /\ MainInit
    /\ SideInit

----------------------------------------------------------------------------
(* SyncServices.sync_all_collections / sync_collection, cut at their calls *)

\* Entry of the handler: _validate_admin_access, start_time, sync_id.
Invoke(r, kind, c, token) ==
    /\ run[r].pc = "IDLE"
    /\ \A e \in Earlier(r) : run[e].pc # "IDLE"
    /\ IF ~IsAdmin(token)
       THEN /\ run' = [run EXCEPT ![r].pc = "ERROR", ![r].kind = kind, ![r].token = token,
                                  ![r].error = AdminRequired]
            /\ UNCHANGED now
       ELSE \E t \in {now, now + 1} :
            /\ t <= MaxTime
            /\ now' = t
            /\ run' = [run EXCEPT ![r].pc = "START", ![r].kind = kind, ![r].token = token,
                                  ![r].names = IF kind = "all" THEN CollectionNames ELSE <<c>>,
                                  ![r].start_time = t]
    /\ UNCHANGED <<batchSize, source, index, history, obs, faults, sideVars>>

SyncAllCollections(r) == \E token \in Tokens : Invoke(r, "all", CollectionNames[1], token)

SyncCollection(r) == \E c \in Collections, token \in Tokens : Invoke(r, "one", c, token)

\* latest_sync_time = _get_latest_sync_time(); the search of the sync index
\* may raise inside get_sync_history, which then returns [].
ReadWatermark(r) ==
    /\ run[r].pc = "START"
    /\ \E reachable \in BOOLEAN :
        /\ reachable \/ CanFail
        /\ faults' = IF reachable THEN faults ELSE faults + 1
        /\ run' = [run EXCEPT ![r].pc = "EXTRACT", ![r].ci = 1,
                              ![r].latest_sync_time = GetLatestSyncTime(reachable)]
        /\ obs' = [obs EXCEPT ![r].storeTop = get_latest_sync_time(TRUE),
                              ![r].indexBefore = index]
    /\ UNCHANGED <<now, batchSize, source, index, history, sideVars>>

\* The end of a collection with the result appended only when documents
\* were synced.
FinishCollectionSkipEmpty(rr, oo) ==
    LET c    == rr.names[rr.ci]
        done == [rr EXCEPT !.collection_results =
                               IF rr.total_synced > 0
                               THEN Append(@, CollectionResult(c, rr.total_synced, now))
                               ELSE @,
                           !.batch_documents = <<>>, !.index_cards = <<>>,
                           !.batch_count = 0, !.total_synced = 0]
    IN  [r |-> IF rr.ci < Len(rr.names)
               THEN [done EXCEPT !.ci = @ + 1, !.pc = "EXTRACT"]
               ELSE [done EXCEPT !.pc = "RECORD"],
         o |-> [oo EXCEPT !.readLog = Append(@, [matching |-> oo.matching[1], reads |-> oo.reads,
                                                  bulks |-> rr.batch_count]),
                          !.reads = 0, !.matching = None, !.seen = {}]]

\* End of _sync_single_collection (lines 331-335) and of the handler's loop
\* body (lines 69-75): the result is appended and the next collection starts.
FinishCollection(rr, oo) ==
    LET c    == rr.names[rr.ci]
        done == [rr EXCEPT !.collection_results =
                               Append(@, CollectionResult(c, rr.total_synced, now)),
                           !.batch_documents = <<>>, !.index_cards = <<>>,
                           !.batch_count = 0, !.total_synced = 0]
    IN  [r |-> IF rr.ci < Len(rr.names)
               THEN [done EXCEPT !.ci = @ + 1, !.pc = "EXTRACT"]
               ELSE [done EXCEPT !.pc = "RECORD"],
         o |-> [oo EXCEPT !.readLog = Append(@, [matching |-> oo.matching[1], reads |-> oo.reads,
                                                  bulks |-> rr.batch_count]),
                          !.reads = 0, !.matching = None, !.seen = {}]]

\* "If we got fewer documents than batch size, we're done" (lines 327-329).
LoopCheck(rr, oo) ==
    IF Len(rr.batch_documents) < batchSize
    THEN FinishCollection(rr, oo)
    ELSE [r |-> [rr EXCEPT !.pc = "EXTRACT"], o |-> oo]

\* One pass of the while loop up to the bulk call (lines 299-318).
Extract(r) ==
    /\ run[r].pc = "EXTRACT"
    /\ \E outcome \in {"ok", "unreachable", "cursor_error"} :
        LET c         == run[r].names[run[r].ci]
            since     == run[r].latest_sync_time
            documents == get_documents_since(c, since, outcome = "ok")
            batch     == Take(documents, batchSize)
            ids       == {batch[i].id : i \in 1..Len(batch)}
            seenObs   == [obs[r] EXCEPT
                            !.reads    = Sat(@ + 1),
                            !.matching = IF @ = None
                                         THEN Some(Len(get_documents_since(c, since, TRUE)))
                                         ELSE @,
                            !.seen     = @ \cup ids,
                            !.reread   = @ \/ (ids \cap obs[r].seen # {}),
                            !.srcError = @ \/ outcome # "ok"]
            read      == [run[r] EXCEPT !.batch_documents = batch,
                                        !.index_cards = IndexCards(c, batch)]
            next      == IF batch = <<>>
                         THEN FinishCollection(read, seenObs)
                         ELSE IF read.index_cards # <<>>
                         THEN [r |-> [read EXCEPT !.pc = "INDEX"], o |-> seenObs]
                         ELSE LoopCheck(read, seenObs)
        IN  /\ outcome = "ok" \/ CanFail
            /\ faults' = IF outcome = "ok" THEN faults ELSE faults + 1
            /\ IF outcome = "cursor_error"
               THEN /\ run' = [run EXCEPT ![r].pc = "ERROR", ![r].error = "source"]
                    /\ obs' = [obs EXCEPT ![r].srcError = TRUE]
               ELSE /\ run' = [run EXCEPT ![r] = next.r]
                    /\ obs' = [obs EXCEPT ![r] = next.o]
    /\ UNCHANGED <<now, batchSize, source, index, history, sideVars>>

\* The bulk call and the rest of the pass (lines 320-329).
Index(r) ==
    /\ run[r].pc = "INDEX"
    /\ \E raised \in BOOLEAN, rejected \in SUBSET (1..Len(run[r].index_cards)) :
        LET cards    == run[r].index_cards
            response == IF raised THEN TransportError
                        ELSE BulkResponse(BulkItems(cards, rejected, index))
            result   == bulk_upsert_documents(cards, response)
            lost     == IF raised THEN 1..Len(cards) ELSE rejected
            counted  == [run[r] EXCEPT !.total_synced = Sat(@ + result.success),
                                       !.batch_count = Sat(@ + 1)]
            seenObs  == [obs[r] EXCEPT
                            !.failed  = @ \cup {run[r].batch_documents[i] : i \in lost},
                            !.partial = @ \/ (~raised /\ result.failed > 0)]
            next     == LoopCheck(counted, seenObs)
        IN  /\ raised => rejected = {}
            /\ (raised \/ rejected # {}) => CanFail
            /\ faults' = IF raised \/ rejected # {} THEN faults + 1 ELSE faults
            /\ index' = IF raised THEN index ELSE BulkApply(cards, response.items, index, 1)
            /\ run' = [run EXCEPT ![r] = next.r]
            /\ obs' = [obs EXCEPT ![r] = next.o]
    /\ UNCHANGED <<now, batchSize, source, history, sideVars>>

\* _save_sync_history and the result returned (lines 77-86, 120-127);
\* save_sync_history returns False when client.index raises.
Record(r) ==
    /\ run[r].pc = "RECORD"
    /\ \E stored \in BOOLEAN :
        LET doc == SyncDoc(r, run[r].start_time, run[r].collection_results)
        IN  /\ stored \/ CanFail
            /\ faults' = IF stored THEN faults ELSE faults + 1
            /\ history' = IF stored
                          THEN [k \in DOMAIN history \cup {r} |-> IF k = r THEN doc ELSE history[k]]
                          ELSE history
            /\ obs' = [obs EXCEPT ![r].saveError = ~stored]
            /\ run' = [run EXCEPT
                         ![r].pc = "DONE",
                         ![r].result =
                            IF run[r].kind = "all"
                            THEN Some(BuildSyncResult(r, run[r].start_time, run[r].collection_results))
                            ELSE Some(BuildCollectionSyncResult(
                                        r, run[r].names[1], run[r].start_time,
                                        run[r].collection_results[1].count))]
    /\ UNCHANGED <<now, batchSize, source, index, sideVars>>

Step(r) == ReadWatermark(r) \/ Extract(r) \/ Index(r) \/ Record(r)

Next ==
    \E r \in Runs :
        \/ SyncAllCollections(r)
        \/ SyncCollection(r)
        \/ ReadWatermark(r)
        \/ Extract(r)
        \/ Index(r)
        \/ Record(r)

Spec == Init /\ [][Next]_vars

\* Invocations one after the other (a single client that waits for each
\* answer): the behaviours of Spec in which no two handlers overlap.
NoneRunning == \A r \in Runs : run[r].pc \in {"IDLE", "DONE", "ERROR"}

NextSeq ==
    \E r \in Runs :
        \/ NoneRunning /\ SyncAllCollections(r)
        \/ NoneRunning /\ SyncCollection(r)
        \/ ReadWatermark(r)
        \/ Extract(r)
        \/ Index(r)
        \/ Record(r)

SeqSpec == Init /\ [][NextSeq]_vars

\* A handler that has started runs to its end: Python executes it statement
\* after statement, and every call it makes returns or raises.
FairSpec == Spec /\ \A r \in Runs : WF_vars(Step(r))

FairSeqSpec == SeqSpec /\ \A r \in Runs : WF_vars(Step(r))

----------------------------------------------------------------------------
(* The one-step operations of SyncServices: index_documents,               *)
(* get_sync_history, set_sync_periodicity, get_sync_periodicity.           *)

\* The sync_id (uuid4) of an index_documents call.
IndexIds == {"d1"}

\* The documents a caller may post for collection c.
IndexRequests(c) == {DocsOf(c, ls) : ls \in SeqsUpTo(LastSaved, MaxRequest)}

\* The orders in which the sync index may return its documents under
\* "sort": [{"started_at": {"order": "desc"}}].
NewestFirst ==
    LET n == Cardinality(DOMAIN history)
    IN  {s \in [1..n -> DOMAIN history] :
            /\ \A i, j \in 1..n : i # j => s[i] # s[j]
            /\ \A i, j \in 1..n :
                  i < j => history[s[i]].started_at.iso >= history[s[j]].started_at.iso}

\* ElasticUtils.get_sync_history(limit): the first limit hits; [] when the
\* search raises.
get_sync_history(limit, order, reachable) ==
    IF ~reachable THEN <<>>
    ELSE [i \in 1..Min(limit, Len(order)) |-> history[order[i]]]

Raised(token) == [op |-> "none", token |-> token, error |-> AdminRequired, value |-> <<>>]

\* The batch loop of index_documents with the slices one card apart: the
\* card after a full batch is in no batch.
RECURSIVE IndexBatchesSkipping(_, _, _, _, _, _, _)
IndexBatchesSkipping(index_cards, i, raised, rejected, idx, total_indexed, calls) ==
    IF i >= Len(index_cards)
    THEN [index |-> idx, total_indexed |-> total_indexed, calls |-> calls]
    ELSE LET hi       == Min(i + batchSize, Len(index_cards))
             batch    == SubSeq(index_cards, i + 1, hi)
             rej      == {q - i : q \in {q \in rejected : q > i /\ q <= hi}}
             response == IF Len(calls) + 1 \in raised
                         THEN TransportError
                         ELSE BulkResponse(BulkItems(batch, rej, idx))
             result   == bulk_upsert_documents(batch, response)
         IN  IndexBatchesSkipping(index_cards, i + batchSize + 1, raised, rejected,
                          IF response.raised THEN idx
                          ELSE BulkApply(batch, response.items, idx, 1),
                          total_indexed + result.success,
                          Append(calls, [batch |-> batch, success |-> result.success]))

\* The batch loop of index_documents (lines 165-169): raised holds the batches
\* whose bulk call raises, rejected the cards the index refuses; calls is the
\* bulk calls made so far, each with its batch and the successes it reported.
RECURSIVE IndexBatches(_, _, _, _, _, _, _)
IndexBatches(index_cards, i, raised, rejected, idx, total_indexed, calls) ==
    IF i >= Len(index_cards)
    THEN [index |-> idx, total_indexed |-> total_indexed, calls |-> calls]
    ELSE LET hi       == Min(i + batchSize, Len(index_cards))
             batch    == SubSeq(index_cards, i + 1, hi)
             rej      == {q - i : q \in {q \in rejected : q > i /\ q <= hi}}
             response == IF (i \div batchSize) + 1 \in raised
                         THEN TransportError
                         ELSE BulkResponse(BulkItems(batch, rej, idx))
             result   == bulk_upsert_documents(batch, response)
         IN  IndexBatches(index_cards, i + batchSize, raised, rejected,
                          IF response.raised THEN idx
                          ELSE BulkApply(batch, response.items, idx, 1),
                          total_indexed + result.success,
                          Append(calls, [batch |-> batch, success |-> result.success]))

\* index_documents (lines 129-185) called with documents; the reply holds
\* what it returned and, after it, the cards it built and the bulk calls it
\* made.
IndexDocumentsCall(c, token, sync_id, documents) ==
    /\ sync_id \notin DOMAIN history
    /\ IF ~IsAdmin(token)
       THEN /\ reply' = [Raised(token) EXCEPT !.op = "index_documents"]
            /\ UNCHANGED <<index, history, faults>>
       ELSE LET index_cards == IndexCards(c, documents)
                batches     == (Len(index_cards) + batchSize - 1) \div batchSize
            IN  \E raised \in SUBSET (1..batches),
                   rejected \in SUBSET (1..Len(index_cards)),
                   stored \in BOOLEAN :
                  LET failing == raised # {} \/ rejected # {} \/ ~stored
                      done    == IndexBatches(index_cards, 0, raised, rejected, index, 0, <<>>)
                      collection_result == CollectionResult(c, done.total_indexed, now)
                  IN  /\ failing => CanFail
                      /\ \A q \in rejected : ((q - 1) \div batchSize) + 1 \notin raised
                      /\ faults' = IF failing THEN faults + 1 ELSE faults
                      /\ index' = done.index
                      /\ history' =
                            IF stored
                            THEN [k \in DOMAIN history \cup {sync_id} |->
                                    IF k = sync_id
                                    THEN SyncDoc(sync_id, now, <<collection_result>>)
                                    ELSE history[k]]
                            ELSE history
                      /\ reply' = [op    |-> "index_documents",
                                   token |-> token,
                                   error |-> "none",
                                   value |-> <<BuildCollectionSyncResult(
                                                  sync_id, c, now, done.total_indexed),
                                               [cards |-> index_cards,
                                                calls |-> done.calls]>>]
    /\ UNCHANGED <<now, batchSize, source, run, obs, bulkVars, period, legacy>>

IndexDocuments ==
    \E c \in Collections, token \in Tokens, sync_id \in IndexIds :
        \E documents \in IndexRequests(c) :
            IndexDocumentsCall(c, token, sync_id, documents)

\* get_sync_history (lines 187-207)
GetSyncHistory ==
    /\ \E limit \in 0..MaxLimit, token \in Tokens :
        IF ~IsAdmin(token)
        THEN /\ reply' = [Raised(token) EXCEPT !.op = "get_sync_history"]
             /\ UNCHANGED faults
        ELSE \E reachable \in BOOLEAN, order \in NewestFirst :
               /\ reachable \/ CanFail
               /\ faults' = IF reachable THEN faults ELSE faults + 1
               /\ reply' = [op    |-> "get_sync_history",
                            token |-> token,
                            error |-> "none",
                            value |-> get_sync_history(limit, order, reachable)]
    /\ UNCHANGED <<now, batchSize, source, index, history, run, obs, bulkVars, period, legacy>>

\* set_sync_periodicity without the check of the sign.
SetSyncPeriodicityUnchecked ==
    /\ \E period_seconds \in (0 - 1)..MaxPeriod, token \in Tokens :
        IF ~IsAdmin(token)
        THEN /\ reply' = [Raised(token) EXCEPT !.op = "set_sync_periodicity"]
             /\ UNCHANGED period
        ELSE /\ period' = period_seconds
             /\ reply' = [op    |-> "set_sync_periodicity",
                          token |-> token,
                          error |-> "none",
                          value |-> <<[sync_period_seconds |-> period_seconds]>>]
    /\ UNCHANGED <<mainVars, bulkVars, legacy>>

\* set_sync_periodicity (lines 209-240)
SetSyncPeriodicity ==
    /\ \E period_seconds \in (0 - 1)..MaxPeriod, token \in Tokens :
        IF ~IsAdmin(token)
        THEN /\ reply' = [Raised(token) EXCEPT !.op = "set_sync_periodicity"]
             /\ UNCHANGED period
        ELSE IF period_seconds < 0
        THEN /\ reply' = [op    |-> "set_sync_periodicity",
                          token |-> token,
                          error |-> "Sync period must be non-negative",
                          value |-> <<>>]
             /\ UNCHANGED period
        ELSE /\ period' = period_seconds
             /\ reply' = [op    |-> "set_sync_periodicity",
                          token |-> token,
                          error |-> "none",
                          value |-> <<[sync_period_seconds |-> period_seconds]>>]
    /\ UNCHANGED <<mainVars, bulkVars, legacy>>

\* get_sync_periodicity (lines 242-264)
GetSyncPeriodicity ==
    /\ \E token \in Tokens :
        IF ~IsAdmin(token)
        THEN reply' = [Raised(token) EXCEPT !.op = "get_sync_periodicity"]
        ELSE reply' = [op    |-> "get_sync_periodicity",
                       token |-> token,
                       error |-> "none",
                       value |-> <<[sync_period_seconds |-> period]>>]
    /\ UNCHANGED <<mainVars, bulkVars, period, legacy>>

\* Every operation of SyncServices, called by a single client that waits for
\* each answer: one sync invocation (the first of Runs) and any number of the
\* one-step operations before and after it.
NextOps ==
    \/ NoneRunning /\ SyncAllCollections(RunOrder[1])
    \/ NoneRunning /\ SyncCollection(RunOrder[1])
    \/ ReadWatermark(RunOrder[1])
    \/ Extract(RunOrder[1])
    \/ Index(RunOrder[1])
    \/ Record(RunOrder[1])
    \/ NoneRunning /\ IndexDocuments
    \/ NoneRunning /\ GetSyncHistory
    \/ NoneRunning /\ SetSyncPeriodicity
    \/ NoneRunning /\ GetSyncPeriodicity

\* The service started over a source of at most one document per collection.
OpsInit ==
    /\ Init
    /\ \A c \in Collections : Len(source[c]) <= 1

OpsSpec == OpsInit /\ [][NextOps]_vars

----------------------------------------------------------------------------
(* Pagination: ElasticUtils.search_documents_paginated and the history     *)
(* page, each called with every page and page size over every number of    *)
(* stored items.                                                           *)

\* client.search(body = {..., "from": from, "size": size}) over the hits that
\* match, in the order the index returns them.
ClientSearch(matching, from, size) ==
    [hits  |-> SubSeq(matching, from + 1, Min(from + size, Len(matching))),
     total |-> Len(matching)]

\* search_documents_paginated with total_pages rounded down.
search_documents_paginated_floor(matching, page, page_size) ==
    LET offset      == (page - 1) * page_size
        response    == ClientSearch(matching, offset, page_size)
        total_pages == response.total \div page_size
    IN  [items      |-> response.hits,
         pagination |-> [page         |-> page,
                         page_size    |-> page_size,
                         total_items  |-> response.total,
                         total_pages  |-> total_pages,
                         has_next     |-> page < total_pages,
                         has_previous |-> page > 1]]

\* search_documents_paginated (lines 87-142), matching being the documents
\* of the search index that the query or the text selects.
search_documents_paginated(matching, page, page_size) ==
    LET offset      == (page - 1) * page_size
        response    == ClientSearch(matching, offset, page_size)
        total_hits  == response.total
        total_pages == (total_hits + page_size - 1) \div page_size
    IN  [items      |-> response.hits,
         pagination |-> [page         |-> page,
                         page_size    |-> page_size,
                         total_items  |-> total_hits,
                         total_pages  |-> total_pages,
                         has_next     |-> page < total_pages,
                         has_previous |-> page > 1]]

\* ElasticUtils.get_sync_history_count
get_sync_history_count == Cardinality(DOMAIN history)

\* ElasticUtils.get_sync_history_paginated(offset, size): newest first.
get_sync_history_paginated(order, offset, size) ==
    LET all == [i \in 1..Len(order) |-> history[order[i]]]
    IN  ClientSearch(all, offset, size).hits

\* The history page of the History Store (section 4.5 of the specification):
\* the count and the page of the sync index under the pagination block.
get_sync_history_page(order, page, page_size) ==
    LET total_items == get_sync_history_count
        total_pages == (total_items + page_size - 1) \div page_size
    IN  [items      |-> get_sync_history_paginated(order, (page - 1) * page_size, page_size),
         pagination |-> [page         |-> page,
                         page_size    |-> page_size,
                         total_items  |-> total_items,
                         total_pages  |-> total_pages,
                         has_next     |-> page < total_pages,
                         has_previous |-> page > 1]]

\* The stores of up to MaxStored SyncRuns, started at tick 1 or 2 (two runs
\* may have started at the same tick).
PageHistories ==
    UNION {{[k \in 1..n |-> SyncDoc(k, f[k], <<>>)] :
               f \in {g \in [1..n -> 1..2] : \A i, j \in 1..n : i < j => g[i] <= g[j]}} :
           n \in 0..MaxStored}

InitPage ==
    /\ now = 2
    /\ batchSize = 1
    /\ source = [c \in Collections |-> <<>>]
    /\ index = <<>>
    /\ history \in PageHistories
    /\ run = [r \in Runs |-> IdleRun]
    /\ obs = [r \in Runs |-> IdleObs]
    /\ faults = 0
    /\ SideInit

\* A search that n documents of the index match.
SearchDocumentsPaginated ==
    /\ \E n \in 0..MaxItems, page \in 1..MaxPage, page_size \in 1..MaxPageSize :
        LET matching == [i \in 1..n |-> [collection_id |-> i]]
        IN  reply' = [op    |-> "search_documents_paginated",
                      token |-> [roles |-> {}],
                      error |-> "none",
                      value |-> <<[all    |-> matching,
                                   result |-> search_documents_paginated(
                                                  matching, page, page_size)]>>]
    /\ UNCHANGED <<mainVars, bulkVars, period, legacy>>

\* A page of the sync history.
GetSyncHistoryPage ==
    /\ \E order \in NewestFirst, page \in 1..MaxPage, page_size \in 1..MaxPageSize :
        reply' = [op    |-> "get_sync_history_page",
                  token |-> [roles |-> {}],
                  error |-> "none",
                  value |-> <<[all    |-> [i \in 1..Len(order) |-> history[order[i]]],
                               result |-> get_sync_history_page(order, page, page_size)]>>]
    /\ UNCHANGED <<mainVars, bulkVars, period, legacy>>

NextPage == SearchDocumentsPaginated \/ GetSyncHistoryPage

SpecPage == InitPage /\ [][NextPage]_vars

----------------------------------------------------------------------------
(* The earlier variant of the service (src/services/sync_services.py and   *)
(* src/utils/mongo_utils.py): sync_collection with an index_as alias, the  *)
(* cards built inside process_collection_batch.  It uses the ElasticUtils  *)
(* above.                                                                  *)

\* Aliases a caller may give: none, the empty text of "?index_as=", a new
\* logical name, or the name of a collection (the synced one or another).
IndexAs == {None, Some(""), Some("students"), Some("chains")}

\* Python truthiness of an Optional[str].
Truthy(index_as) == index_as # None /\ index_as[1] # ""

\* Documents of the earlier variant: the same _id may live in several
\* collections (the extension pattern).
LegacyDocIds == <<"x1", "x2", "x3">>

LegacyDocsOf(ls) == [i \in 1..Len(ls) |-> [id |-> LegacyDocIds[i], last_saved |-> ls[i]]]

LegacySources ==
    {[c \in Collections |-> LegacyDocsOf(f[c])] :
        f \in {g \in [Collections -> SeqsUpTo(LastSaved \cup {TextLastSaved}, MaxLegacyDocs)] :
                  \A c \in Collections : Len(g[c]) <= (IF c = "bots" THEN MaxLegacyDocs ELSE 1)}}

\* get_document_by_id: find_one({"_id": doc_id}), None when there is none.
get_document_by_id(c, doc_id) ==
    LET found == SelectSeq(source[c], LAMBDA d : d.id = doc_id)
    IN  IF found = <<>> THEN None ELSE Some(found[1])

\* get_related_documents: per collection name, the document of that _id.
get_related_documents(doc_id) == [c \in Collections |-> get_document_by_id(c, doc_id)]

\* create_index_card that keys the nested copy by the alias.
create_index_card_keyed_by_alias(c, d, index_as) ==
    IF d.last_saved.present /\ ~d.last_saved.datetime
    THEN <<>>
    ELSE [collection_id   |-> d.id,
          collection_name |-> IF Truthy(index_as) THEN index_as[1] ELSE c,
          last_saved      |-> IF d.last_saved.present
                              THEN Isoformat(d.last_saved.at)
                              ELSE Isoformat(now),
          nested          |-> LET key == IF Truthy(index_as) THEN index_as[1] ELSE c
                              IN  [k \in {key} |-> d]]

\* create_index_card (src/utils/mongo_utils.py lines 75-101): {} (here <<>>)
\* when building raises, which .isoformat() does on an atTime held as text;
\* nested maps each key holding a copy of a document to that document.
create_index_card_index_as(c, d, index_as) ==
    IF d.last_saved.present /\ ~d.last_saved.datetime
    THEN <<>>
    ELSE LET related_docs == IF Truthy(index_as) /\ index_as[1] # c
                             THEN get_related_documents(d.id)
                             ELSE [k \in {} |-> None]
             related      == {k \in DOMAIN related_docs : related_docs[k] # None}
         IN  [collection_id   |-> d.id,
              collection_name |-> IF Truthy(index_as) THEN index_as[1] ELSE c,
              last_saved      |-> IF d.last_saved.present
                                  THEN Isoformat(d.last_saved.at)
                                  ELSE Isoformat(now),
              nested          |-> [k \in {c} \cup related |->
                                      IF k \in related THEN related_docs[k][1] ELSE d]]

\* process_collection_batch (lines 103-123): the cards of the first
\* batch_size documents of the cursor, the cards that are {} left out.
process_collection_batch(c, since_time, batch_size, index_as, reachable) ==
    LET documents == get_documents_since(c, since_time, reachable)
        batch     == Take(documents, batch_size)
        cards     == [i \in 1..Len(batch) |-> create_index_card_index_as(c, batch[i], index_as)]
    IN  [index_cards |-> SelectSeq(cards, LAMBDA card : card # <<>>),
         read        |-> Len(batch)]

\* sync_collection (src/services/sync_services.py lines 61-88) up to the
\* call of _sync_single_collection; the n-th call has sync_id n.
LegacySyncCollection ==
    /\ legacy.pc \in {"IDLE", "DONE"}
    /\ legacy.calls < MaxLegacyRuns
    /\ \E c \in Collections, index_as \in IndexAs, t \in {now, now + 1}, reachable \in BOOLEAN :
        /\ t <= MaxTime
        /\ reachable \/ CanFail
        /\ faults' = IF reachable THEN faults ELSE faults + 1
        /\ now' = t
        /\ legacy' = [IdleLegacy EXCEPT
                         !.pc = "BATCH",
                         !.calls = legacy.calls + 1,
                         !.collection_name = c,
                         !.index_as = index_as,
                         !.start_time = t,
                         !.latest_sync_time = get_latest_sync_time(reachable)]
    /\ UNCHANGED <<batchSize, source, index, history, run, obs, bulkVars, period, reply>>

\* One pass of the while loop of _sync_single_collection (lines 203-230).
LegacyBatch ==
    /\ legacy.pc = "BATCH"
    /\ \E reachable \in BOOLEAN, raised \in BOOLEAN,
          rejected \in SUBSET (1..batchSize) :
        LET c        == legacy.collection_name
            got      == process_collection_batch(c, legacy.latest_sync_time, batchSize,
                                                 legacy.index_as, reachable)
            cards    == got.index_cards
            response == IF raised THEN TransportError
                        ELSE BulkResponse(BulkItems(cards, rejected, index))
            result   == bulk_upsert_documents(cards, response)
            failing  == ~reachable \/ raised \/ rejected # {}
            stop     == cards = <<>> \/ Len(cards) < batchSize
            total    == IF cards = <<>> THEN legacy.total_synced
                        ELSE Sat(legacy.total_synced + result.success)
        IN  /\ rejected \subseteq 1..Len(cards)
            /\ (cards = <<>> \/ raised) => rejected = {}
            /\ cards = <<>> => ~raised
            /\ failing => CanFail
            /\ faults' = IF failing THEN faults + 1 ELSE faults
            /\ index' = IF cards = <<>> \/ raised THEN index
                        ELSE BulkApply(cards, response.items, index, 1)
            /\ legacy' = [legacy EXCEPT
                            !.index_cards = cards,
                            !.read = got.read,
                            !.total_synced = total,
                            !.early = stop /\ got.read = batchSize /\ reachable,
                            !.collection_result =
                                IF stop THEN Some(CollectionResult(c, total, now)) ELSE @,
                            !.pc = IF stop THEN "RECORD" ELSE "BATCH"]
    /\ UNCHANGED <<now, batchSize, source, history, run, obs, bulkVars, period, reply>>

\* _build_collection_sync_result (lines 257-277), the durations left out.
LegacyBuildCollectionSyncResult(sync_id, collection_name, index_as, start_time, total_synced) ==
    [sync_id      |-> sync_id,
     collection   |-> collection_name,
     index_as     |-> index_as,
     start_time   |-> Isoformat(start_time),
     total_synced |-> total_synced]

\* The end of sync_collection (lines 90-97): the history is saved and the
\* result built.
LegacyRecord ==
    /\ legacy.pc = "RECORD"
    /\ \E stored \in BOOLEAN :
        LET sync_id == legacy.calls
            doc     == SyncDoc(sync_id, legacy.start_time, <<legacy.collection_result[1]>>)
        IN  /\ stored \/ CanFail
            /\ faults' = IF stored THEN faults ELSE faults + 1
            /\ history' = IF stored
                          THEN [k \in DOMAIN history \cup {sync_id} |->
                                   IF k = sync_id THEN doc ELSE history[k]]
                          ELSE history
            /\ legacy' = [legacy EXCEPT
                            !.pc = "DONE",
                            !.result = Some(LegacyBuildCollectionSyncResult(
                                          sync_id, legacy.collection_name, legacy.index_as,
                                          legacy.start_time,
                                          legacy.collection_result[1].count))]
    /\ UNCHANGED <<now, batchSize, source, index, run, obs, bulkVars, period, reply>>

InitLegacy ==
    /\ now = 2
    /\ batchSize \in 1..MaxBatch
    /\ source \in LegacySources
    /\ index = <<>>
    /\ history = <<>>
    /\ run = [r \in Runs |-> IdleRun]
    /\ obs = [r \in Runs |-> IdleObs]
    /\ faults = 0
    /\ SideInit

NextLegacy == LegacySyncCollection \/ LegacyBatch \/ LegacyRecord

SpecLegacy == InitLegacy /\ [][NextLegacy]_vars

----------------------------------------------------------------------------
(* bulk_upsert_documents on its own: every batch of up to MaxCards cards     *)
(* against every response of the index.                                    *)

BulkCards(n) == [i \in 1..n |-> [collection_id |-> i]]

InitBulk ==
    /\ now = 2
    /\ batchSize = 1
    /\ source = [c \in Collections |-> <<>>]
    /\ index = <<>>
    /\ history = <<>>
    /\ run = [r \in Runs |-> IdleRun]
    /\ obs = [r \in Runs |-> IdleObs]
    /\ faults = 0
    /\ SideInit

BulkUpsert ==
    /\ \E n \in 0..MaxCards :
         \E response \in {TransportError} \cup
                          {BulkResponse(items) :
                              items \in [1..n -> {HttpOk, HttpCreated, HttpBadRequest}]} :
            /\ bulkIn' = [documents |-> BulkCards(n), response |-> response]
            /\ bulkOut' = bulk_upsert_documents(BulkCards(n), response)
    /\ UNCHANGED <<mainVars, period, reply, legacy>>

NextBulk == BulkUpsert

SpecBulk == InitBulk /\ [][NextBulk]_vars

----------------------------------------------------------------------------
(* The Query Engine: SearchServices.search_documents                       *)
(* (source/services/search_services.py) over                               *)
(* ElasticUtils.search_documents_paginated.  A text is a sequence of       *)
(* tokens; a JSON value is a record tagged with its kind, an object        *)
(* holding a function from its keys to values.                             *)

Quote == "\""

JNull == [kind |-> "null"]

JBool(b) == [kind |-> "bool", b |-> b]

JNum(n) == [kind |-> "number", n |-> n]

JStr(s) == [kind |-> "string", s |-> s]

JList(items) == [kind |-> "list", items |-> items]

JDict(items) == [kind |-> "dict", items |-> items]

EmptyItems == [k \in {} |-> JNull]

\* d[key] = value of Python, on the items of a dict.
SetItem(items, key, value) ==
    [k \in DOMAIN items \cup {key} |-> IF k = key THEN value ELSE items[k]]

NumberTokens == {"0", "7", "50"}

NumberOf(t) == CASE t = "0" -> 0 [] t = "7" -> 7 [] t = "50" -> 50

\* urllib.parse.unquote: every percent escape becomes its character.
Decode(t) ==
    CASE t = "%7B" -> "{"
      [] t = "%7D" -> "}"
      [] t = "%22" -> Quote
      [] t = "%3A" -> ":"
      [] t = "%20" -> " "
      [] OTHER     -> t

unquote(text) == [i \in 1..Len(text) |-> Decode(text[i])]

ParseFail == [ok |-> FALSE, value |-> JNull, next |-> 0]

Parsed(value, next) == [ok |-> TRUE, value |-> value, next |-> next]

\* json.loads: the value that starts at token i and the place after it.
RECURSIVE ParseValue(_, _)
RECURSIVE ParseMembers(_, _, _)
RECURSIVE ParseElements(_, _, _)
ParseValue(t, i) ==
    IF i > Len(t) THEN ParseFail
    ELSE CASE t[i] = "null"  -> Parsed(JNull, i + 1)
           [] t[i] = "true"  -> Parsed(JBool(TRUE), i + 1)
           [] t[i] = "false" -> Parsed(JBool(FALSE), i + 1)
           [] t[i] \in NumberTokens -> Parsed(JNum(NumberOf(t[i])), i + 1)
           [] t[i] = Quote ->
                IF i + 1 <= Len(t) /\ t[i + 1] = Quote
                THEN Parsed(JStr(<<>>), i + 2)
                ELSE IF i + 2 <= Len(t) /\ t[i + 2] = Quote
                THEN Parsed(JStr(<<t[i + 1]>>), i + 3)
                ELSE ParseFail
           [] t[i] = "[" ->
                IF i + 1 <= Len(t) /\ t[i + 1] = "]"
                THEN Parsed(JList(<<>>), i + 2)
                ELSE ParseElements(t, i + 1, <<>>)
           [] t[i] = "{" ->
                IF i + 1 <= Len(t) /\ t[i + 1] = "}"
                THEN Parsed(JDict(EmptyItems), i + 2)
                ELSE ParseMembers(t, i + 1, EmptyItems)
           [] OTHER -> ParseFail

ParseElements(t, i, acc) ==
    LET v == ParseValue(t, i)
    IN  IF ~v.ok \/ v.next > Len(t) THEN ParseFail
        ELSE IF t[v.next] = "]" THEN Parsed(JList(Append(acc, v.value)), v.next + 1)
        ELSE IF t[v.next] = "," THEN ParseElements(t, v.next + 1, Append(acc, v.value))
        ELSE ParseFail

ParseMembers(t, i, acc) ==
    IF i + 3 > Len(t) \/ t[i] # Quote \/ t[i + 2] # Quote \/ t[i + 3] # ":"
    THEN ParseFail
    ELSE LET v == ParseValue(t, i + 4)
         IN  IF ~v.ok \/ v.next > Len(t) THEN ParseFail
             ELSE IF t[v.next] = "}"
             THEN Parsed(JDict(SetItem(acc, t[i + 1], v.value)), v.next + 1)
             ELSE IF t[v.next] = ","
             THEN ParseMembers(t, v.next + 1, SetItem(acc, t[i + 1], v.value))
             ELSE ParseFail

json_loads(t) ==
    LET p == ParseValue(t, 1)
    IN  IF p.ok /\ p.next = Len(t) + 1
        THEN [ok |-> TRUE, value |-> p.value]
        ELSE [ok |-> FALSE, value |-> JNull]

\* The truth value Python gives a JSON value in `if query:` (None is JNull).
JTruthy(v) ==
    CASE v.kind = "null"   -> FALSE
      [] v.kind = "bool"   -> v.b
      [] v.kind = "number" -> v.n # 0
      [] v.kind = "string" -> v.s # <<>>
      [] v.kind = "list"   -> v.items # <<>>
      [] v.kind = "dict"   -> DOMAIN v.items # {}

\* `not param` of a request parameter: absent, or the empty text.
NotGiven(param) == param = None \/ param[1] = <<>>

InvalidQuery == "Invalid query parameter format"

ParameterRequired == "Either 'query' or 'search' parameter is required"

\* _parse_search_parameters (lines 60-92)
parse_search_parameters(query_param, search_param) ==
    IF ~NotGiven(query_param)
    THEN LET loaded == json_loads(unquote(query_param[1]))
         IN  [error       |-> IF loaded.ok THEN "none" ELSE InvalidQuery,
              query       |-> loaded.value,
              search_text |-> None]
    ELSE IF ~NotGiven(search_param)
    THEN [error |-> "none", query |-> JNull, search_text |-> Some(unquote(search_param[1]))]
    ELSE [error |-> "none", query |-> JNull, search_text |-> None]

MultiMatch(search_text) ==
    JDict([query |-> JDict([multi_match |->
              JDict([query  |-> JStr(search_text),
                     fields |-> JList(<<JStr(<<"*">>)>>)])])])

MatchAll == JDict([query |-> JDict([match_all |-> JDict(EmptyItems)])])

\* The body search_documents_paginated hands to client.search (lines 91-113);
\* the item assignment raises TypeError on a value that is not a dict.
SearchBody(query, search_text, page, page_size) ==
    LET offset      == (page - 1) * page_size
        search_body == IF JTruthy(query) THEN query
                       ELSE IF search_text # None /\ search_text[1] # <<>>
                       THEN MultiMatch(search_text[1])
                       ELSE MatchAll
    IN  IF search_body.kind # "dict"
        THEN [raised |-> TRUE, body |-> None]
        ELSE [raised |-> FALSE,
              body   |-> Some(SetItem(SetItem(search_body.items, "from", JNum(offset)),
                                      "size", JNum(page_size)))]

\* search_documents (lines 38-55): matching is what the index selects for the
\* body it is sent.
search_documents(query_param, search_param, page, page_size, matching) ==
    IF NotGiven(query_param) /\ NotGiven(search_param)
    THEN [error |-> ParameterRequired, sent |-> None, result |-> None]
    ELSE LET parsed == parse_search_parameters(query_param, search_param)
             built  == SearchBody(parsed.query, parsed.search_text, page, page_size)
         IN  IF parsed.error # "none"
             THEN [error |-> parsed.error, sent |-> None, result |-> None]
             ELSE IF built.raised
             THEN [error |-> "TypeError", sent |-> None, result |-> None]
             ELSE [error  |-> "none",
                   sent   |-> built.body,
                   result |-> Some(search_documents_paginated(matching, page, page_size))]

Q == Quote

TermQuery == <<"{", Q, "query", Q, ":", "{", Q, "term", Q, ":", Q, "bot", Q, "}", "}">>

\* The query parameters of the requests: absent, empty, structured queries
\* (plain and percent-encoded, with and without a result window of their
\* own), other JSON values, and a text that is not JSON.
QueryParams ==
    {None, Some(<<>>),
     Some(TermQuery),
     Some(<<"%7B", "%22", "query", "%22", "%3A", "%7B", "%22", "term", "%22", "%3A",
            "%22", "bot", "%22", "%7D", "%7D">>),
     Some(<<"{", Q, "query", Q, ":", "{", Q, "match_all", Q, ":", "{", "}", "}", ",",
            Q, "size", Q, ":", "50", "}">>),
     Some(<<"{", Q, "from", Q, ":", "7", ",", Q, "sort", Q, ":", "[", Q, "name", Q, "]", "}">>),
     Some(<<"{", "}">>), Some(<<"%7B", "%7D">>),
     Some(<<"null">>), Some(<<"0">>), Some(<<"7">>), Some(<<"[", "]">>),
     Some(<<Q, "bot", Q>>), Some(<<"true">>),
     Some(<<"{", Q, "query", Q>>)}

SearchParams == {None, Some(<<>>), Some(<<"bot">>), Some(<<"my", "%20", "bot">>)}

InitSearch == InitBulk

\* One search; the engine keeps nothing from one search to the next, so a
\* behaviour holds one.
SearchDocuments ==
    /\ reply = NoReply
    /\ \E query_param \in QueryParams, search_param \in SearchParams,
          page \in 1..MaxPage, page_size \in 1..MaxPageSize, n \in 0..MaxHits :
        LET matching == [i \in 1..n |-> [collection_id |-> i]]
            outcome  == search_documents(query_param, search_param, page, page_size, matching)
        IN  reply' = [op    |-> "search_documents",
                      token |-> [roles |-> {}],
                      error |-> outcome.error,
                      value |-> <<[query_param  |-> query_param,
                                   search_param |-> search_param,
                                   page         |-> page,
                                   page_size    |-> page_size,
                                   sent         |-> outcome.sent,
                                   result       |-> outcome.result]>>]
    /\ UNCHANGED <<mainVars, bulkVars, period, legacy>>

NextSearch == SearchDocuments

SpecSearch == InitSearch /\ [][NextSearch]_vars

----------------------------------------------------------------------------
(* The GET /sync/ route (source/routes/sync_routes.py): the request        *)
(* parameters page, page_size and limit, each absent or a text.            *)

ArgTexts == {"-1", "0", "1", "2", "100", "101", "abc"}

\* int(text): the integer, or none when int raises ValueError.
IntOf(text) ==
    CASE text = "-1"  -> Some(0 - 1)
      [] text = "0"   -> Some(0)
      [] text = "1"   -> Some(1)
      [] text = "2"   -> Some(2)
      [] text = "100" -> Some(100)
      [] text = "101" -> Some(101)
      [] OTHER        -> None

RouteArgs == {None} \cup {Some(t) : t \in ArgTexts}

\* request.args.get(name, default, type=int): the default when the parameter
\* is absent or is not an integer.
args_get(arg, default) ==
    IF arg = None \/ IntOf(arg[1]) = None THEN default ELSE IntOf(arg[1])

\* get_sync_history of the route (lines 13-48), order being the stored
\* SyncRuns newest first: the status answered and the call made to the
\* service, if one is made.
get_sync_history_route(page_arg, page_size_arg, limit_arg, order) ==
    LET page      == args_get(page_arg, Some(1))[1]
        page_size == args_get(page_size_arg, Some(PAGE_SIZE))[1]
        limit     == args_get(limit_arg, None)
        effective_page_size == IF limit # None THEN limit[1] ELSE page_size
    IN  IF page < 1 \/ page_size < 1 \/ page_size > 100
        THEN [status |-> 400, called |-> None, body |-> None]
        ELSE IF effective_page_size < 1
        THEN [status |-> 500,
              called |-> Some([page |-> page, page_size |-> effective_page_size]),
              body   |-> None]
        ELSE [status |-> 200,
              called |-> Some([page |-> page, page_size |-> effective_page_size]),
              body   |-> Some(get_sync_history_page(order, page, effective_page_size))]

InitRoute == InitPage

\* One request; a history read changes nothing, so a behaviour holds one.
GetSyncHistoryRoute ==
    /\ reply = NoReply
    /\ \E page_arg \in RouteArgs, page_size_arg \in RouteArgs, limit_arg \in RouteArgs,
          order \in NewestFirst :
        LET answer == get_sync_history_route(page_arg, page_size_arg, limit_arg, order)
        IN  reply' = [op    |-> "GET /sync/",
                      token |-> [roles |-> {}],
                      error |-> "none",
                      value |-> <<[page      |-> page_arg,
                                   page_size |-> page_size_arg,
                                   limit     |-> limit_arg,
                                   status    |-> answer.status,
                                   called    |-> answer.called,
                                   body      |-> answer.body]>>]
    /\ UNCHANGED <<mainVars, bulkVars, period, legacy>>

NextRoute == GetSyncHistoryRoute

SpecRoute == InitRoute /\ [][NextRoute]_vars

----------------------------------------------------------------------------
(* index_documents on its own: every request of up to MaxCards documents    *)
(* under every batch size and every response of the index.                 *)

\* n documents of a request, none holding a last_saved.
PostedDocs(n) ==
    [i \in 1..n |-> [id |-> i,
                     last_saved |-> [present |-> FALSE, at |-> Epoch, datetime |-> TRUE]]]

InitIndexBatch ==
    /\ now = 2
    /\ batchSize \in 1..MaxBatch
    /\ source = [c \in Collections |-> <<>>]
    /\ index = <<>>
    /\ history = <<>>
    /\ run = [r \in Runs |-> IdleRun]
    /\ obs = [r \in Runs |-> IdleObs]
    /\ faults = 0
    /\ SideInit

\* One index_documents call on the empty index.
IndexPosted ==
    /\ reply = NoReply
    /\ \E c \in Collections, token \in Tokens, sync_id \in IndexIds, n \in 0..MaxCards :
          IndexDocumentsCall(c, token, sync_id, PostedDocs(n))

NextIndexBatch == IndexPosted

SpecIndexBatch == InitIndexBatch /\ [][NextIndexBatch]_vars

----------------------------------------------------------------------------
(* The source store under a writer: while syncs run, other services save   *)
(* documents of the collections again.                                     *)

\* Document i of collection c is saved again. Its last_saved.atTime is the
\* clock at the save, to the tick: a save in the tick in which a run took its
\* start_time carries that very time.
Write(c, i) ==
    /\ i \in 1..Len(source[c])
    /\ \E t \in {now, now + 1} :
        /\ t <= MaxTime
        /\ now' = t
        /\ source' = [source EXCEPT
                         ![c][i].last_saved = [present |-> TRUE, at |-> t, datetime |-> TRUE]]
    /\ obs' = [r \in Runs |->
                 IF run[r].pc \in {"START", "EXTRACT", "INDEX", "RECORD", "DONE"}
                 THEN [obs[r] EXCEPT !.written = @ \cup {source[c][i].id}]
                 ELSE obs[r]]
    /\ UNCHANGED <<batchSize, index, history, run, faults, sideVars>>

\* One document at most in each collection, last saved at tick 1; batches
\* that hold a whole collection; no failure of a store.
InitWriter ==
    /\ now = 2
    /\ batchSize = MaxBatch
    /\ source \in {src \in InitialSources :
                     \A c \in Collections :
                         /\ Len(src[c]) <= 1
                         /\ \A i \in 1..Len(src[c]) : src[c][i].last_saved.present}
    /\ index = <<>>
    /\ history = <<>>
    /\ run = [r \in Runs |-> IdleRun]
    /\ obs = [r \in Runs |-> IdleObs]
    /\ faults = MaxFaults
    /\ SideInit

NextWriter ==
    \/ \E r \in Runs :
        \/ SyncAllCollections(r)
        \/ SyncCollection(r)
        \/ ReadWatermark(r)
        \/ Extract(r)
        \/ Index(r)
        \/ Record(r)
    \/ \E c \in Collections : \E i \in 1..MaxDocs : Write(c, i)

SpecWriter == InitWriter /\ [][NextWriter]_vars

----------------------------------------------------------------------------
(* Claims *)

Watermark == GetLatestSyncTime(TRUE)

Recorded(r) == r \in DOMAIN history

\* C1: every sync invocation terminates: once the watermark is read and the
\* extraction has started, the run eventually is DONE (after RECORD) or ends
\* with an error, whatever the number of matching documents and the batch size.
C1_SyncTerminates ==
    \A r \in Runs : (run[r].pc = "EXTRACT") ~> (run[r].pc \in {"DONE", "ERROR"})

\* C2: with no prior SyncRun and no failure, the batches a run reads of one
\* collection are disjoint (no document is in two batches), and the run once
\* DONE has recorded, for each collection, count = the number N of its
\* matching documents.
C2_EndToEnd ==
    \A r \in Runs :
        (faults = 0 /\ obs[r].storeTop = None) =>
            /\ ~obs[r].reread
            /\ run[r].pc = "DONE" =>
                  /\ Recorded(r)
                  /\ \A i \in 1..Len(history[r].collections) :
                        history[r].collections[i].count = obs[r].readLog[i].matching

\* C3: with no failure, a collection with exactly N = k * batchSize matching
\* documents (k >= 1) is read in exactly k batches: never more than k reads
\* while the loop runs, and k reads once it has ended.
C3_ExactMultipleReads ==
    \A r \in Runs :
        faults = 0 =>
            /\ (obs[r].matching # None /\ obs[r].matching[1] > 0
                    /\ obs[r].matching[1] % batchSize = 0)
                  => obs[r].reads <= obs[r].matching[1] \div batchSize
            /\ \A i \in 1..Len(obs[r].readLog) :
                  (obs[r].readLog[i].matching > 0
                      /\ obs[r].readLog[i].matching % batchSize = 0)
                  => obs[r].readLog[i].reads = obs[r].readLog[i].matching \div batchSize

\* C4: the watermark a run computes is the beginning-of-time sentinel when the
\* History Store is empty, and the run is then a full sync (the reader returns
\* every document of each collection of the run); when the store holds a
\* run, it is the start_time of the most recent one.
C4_WatermarkCorrect ==
    \A r \in Runs :
        run[r].latest_sync_time # None =>
            /\ obs[r].storeTop = None =>
                  /\ run[r].latest_sync_time = Some(Epoch)
                  /\ \A c \in Range(run[r].names) :
                        get_documents_since(c, run[r].latest_sync_time, TRUE) = source[c]
            /\ obs[r].storeTop # None => run[r].latest_sync_time = obs[r].storeTop

\* C5: a run in which a source read failed ends with the error propagated to
\* its caller, returns no summary and writes no SyncRun.
C5_SourceErrorAborts ==
    \A r \in Runs :
        obs[r].srcError =>
            /\ run[r].pc = "ERROR"
            /\ run[r].result = None
            /\ ~Recorded(r)

\* C6: a run that has returned a summary to its caller has persisted a SyncRun
\* with the same id, start time and collection counts.
C6_SummaryOrError ==
    \A r \in Runs :
        run[r].result # None =>
            /\ Recorded(r)
            /\ history[r].id = run[r].result[1].id
            /\ history[r].started_at = run[r].result[1].start_time
            /\ Len(history[r].collections) = Len(run[r].result[1].collections)
            /\ \A i \in 1..Len(history[r].collections) :
                  /\ history[r].collections[i].name = run[r].result[1].collections[i].name
                  /\ history[r].collections[i].count = run[r].result[1].collections[i].count

\* C7: when no failure has occurred and every run so far has completed,
\* every document of every configured collection whose last-modified time
\* is at or before the watermark (the start_time of the most recent SyncRun)
\* is in the index.
C7_WatermarkBoundsSynced ==
    (/\ faults = 0
     /\ DOMAIN history # {}
     /\ \A r \in Runs : run[r].pc \in {"IDLE", "DONE"})
    => \A c \in Collections : \A i \in 1..Len(source[c]) :
          (source[c][i].last_saved.present /\ source[c][i].last_saved.at <= Watermark[1])
          => source[c][i].id \in DOMAIN index

\* C8: a document whose upsert a recorded run reported failed, and that is
\* still missing from the index, is still after the watermark: a later run
\* selects it again.
C8_AtLeastOnce ==
    \A r \in Runs :
        Recorded(r) =>
            \A d \in obs[r].failed :
                d.id \notin DOMAIN index => Matches(d, Watermark)

\* C9: a run one of whose batches had cards rejected by the index is not
\* aborted by it: it goes on to the next batch and the following collections
\* and is recorded (unless the run ends with an error or its history write
\* fails).
C9_PartialFailureIsolation ==
    \A r \in Runs :
        obs[r].partial ~> (Recorded(r) \/ run[r].pc = "ERROR" \/ obs[r].saveError)

\* C10: bulk_upsert_documents accounts for every card of its batch: success +
\* failed is the size of the batch; an empty batch gives {0, 0} and the index
\* is not contacted; a transport failure gives {0, size of the batch}.
C10_BulkAccounting ==
    /\ bulkOut.success + bulkOut.failed = Len(bulkIn.documents)
    /\ bulkIn.documents = <<>> =>
          bulkOut = [success |-> 0, failed |-> 0, contacted |-> FALSE]
    /\ (bulkIn.documents # <<>> /\ bulkIn.response.raised) =>
          bulkOut = [success |-> 0, failed |-> Len(bulkIn.documents), contacted |-> TRUE]

\* C10 witness: a batch of five cards of which the index rejects one.
C10_Witness ==
    /\ Len(bulkIn.documents) = 5
    /\ ~bulkIn.response.raised
    /\ bulkOut.success = 4
    /\ bulkOut.failed = 1

\* C11: syncing one collection twice in succession (the second call made after
\* the first has returned its summary, the source unchanged) leaves the index
\* exactly as the first run left it, one card per collection_id, and the second
\* run reports count 0.
C11_Idempotent ==
    (/\ run["r1"].kind = "one" /\ run["r1"].pc = "DONE"
     /\ run["r2"].kind = "one" /\ run["r2"].pc = "DONE"
     /\ run["r2"].names = run["r1"].names)
    => /\ index = obs["r2"].indexBefore
       /\ \A k \in DOMAIN index : index[k].collection_id = k
       /\ run["r2"].result[1].collections[1].count = 0

NotAdmin(token) == "admin" \notin token.roles

\* C12: each of sync_all_collections, sync_collection, index_documents,
\* get_sync_history, set_sync_periodicity and get_sync_periodicity, called with
\* a token whose roles do not include 'admin', raises SyncError('Admin role
\* required ...') and has no effect: the call changes neither the source, the
\* index, the history nor the sync period, and a sync invocation so rejected
\* never reads the source, returns no summary and is never recorded.
C12_Authorization ==
    /\ [](\A r \in Runs :
            (run[r].pc # "IDLE" /\ NotAdmin(run[r].token)) =>
                /\ run[r].pc = "ERROR"
                /\ run[r].error = AdminRequired
                /\ run[r].result = None
                /\ obs[r] = IdleObs
                /\ ~Recorded(r))
    /\ []((reply.op # "none" /\ NotAdmin(reply.token)) =>
            (reply.error = AdminRequired /\ reply.value = <<>>))
    /\ [][((\E r \in Runs : (run[r].pc = "IDLE" /\ run'[r].pc # "IDLE"
                                 /\ NotAdmin(run'[r].token)))
            \/ (reply' # reply /\ NotAdmin(reply'.token)))
           => UNCHANGED <<source, index, history, period, obs, faults>>]_vars

\* C12 witness: a sync invocation and a set_sync_periodicity call have both
\* been rejected while the history and the sync period hold values that an
\* admin had set.
C12_Witness ==
    /\ run[RunOrder[1]].pc = "ERROR"
    /\ NotAdmin(run[RunOrder[1]].token)
    /\ reply.op = "set_sync_periodicity"
    /\ NotAdmin(reply.token)
    /\ reply.error = AdminRequired
    /\ DOMAIN history # {}
    /\ period = MaxPeriod

Alias == IF legacy.index_as # None /\ legacy.index_as[1] # "" THEN legacy.index_as ELSE None

\* C14: every card that sync_collection(C, index_as = A) builds has
\* collection_name A and holds the copy of its source document under the key
\* C, the physical name; without index_as its collection_name is C.  One card
\* is built per document read whose card can be built.
C14_Aliasing ==
    legacy.pc \in {"BATCH", "RECORD"} =>
        LET c    == legacy.collection_name
            docs == SelectSeq(Take(get_documents_since(c, legacy.latest_sync_time, TRUE),
                                   batchSize),
                              LAMBDA d : ~(d.last_saved.present /\ ~d.last_saved.datetime))
        IN  /\ \A i \in 1..Len(legacy.index_cards) :
                  LET card == legacy.index_cards[i]
                  IN  /\ card.collection_name = (IF Alias # None THEN Alias[1] ELSE c)
                      /\ c \in DOMAIN card.nested
                      /\ card.nested[c].id = card.collection_id
                      /\ card.nested[c] \in Range(source[c])
            /\ legacy.index_cards # <<>> =>
                  /\ Len(legacy.index_cards) = Len(docs)
                  /\ \A i \in 1..Len(docs) : legacy.index_cards[i].nested[c] = docs[i]

\* C14 witness: "bots" synced with index_as = "students": the index holds a
\* card named "students" whose copy of the document is keyed "bots".
C14_Witness ==
    /\ legacy.collection_name = "bots"
    /\ legacy.index_as = Some("students")
    /\ legacy.index_cards # <<>>
    /\ \E k \in DOMAIN index :
          /\ index[k].collection_name = "students"
          /\ "bots" \in DOMAIN index[k].nested
          /\ "students" \notin DOMAIN index[k].nested

\* C15: the CollectionResult that sync_collection(C, index_as = A) records in
\* the history carries the logical name indexed: A when index_as is given, C
\* otherwise.
C15_ResultName ==
    (legacy.pc = "DONE" /\ legacy.calls \in DOMAIN history) =>
        history[legacy.calls].collections[1].name =
            (IF Alias # None THEN Alias[1] ELSE legacy.collection_name)

\* C20: a document whose card cannot be built does not keep the rest of its
\* collection from being synced: once the run has ended with no store
\* failure, every document of the collection that the watermark selects and
\* whose card can be built has its card in the index.
C20_SkippedCard ==
    (legacy.pc = "DONE" /\ faults = 0) =>
        \A i \in 1..Len(source[legacy.collection_name]) :
            LET d == source[legacy.collection_name][i]
            IN  (/\ Matches(d, legacy.latest_sync_time)
                 /\ ~(d.last_saved.present /\ ~d.last_saved.datetime))
                => d.id \in DOMAIN index

\* The names of the CollectionResults of a sequence, in order.
ResultNames(results) == [i \in 1..Len(results) |-> results[i].name]

\* C16: a sync invocation handles its collection names one after the other in
\* their order (sync-all: the configured order): while it works on the i-th
\* name it holds the results of exactly the i-1 names before it, in order; a
\* batch that was extracted is upserted (each card stored, or reported
\* failed) before the invocation reads again or goes on; and the SyncRun it
\* records holds exactly one CollectionResult per name, in the same order.
C16_SequentialOrder ==
    /\ [](\A r \in Runs :
            /\ (run[r].kind = "all" /\ run[r].pc # "ERROR") => run[r].names = CollectionNames
            /\ run[r].pc \in {"EXTRACT", "INDEX"} =>
                  /\ run[r].ci \in 1..Len(run[r].names)
                  /\ ResultNames(run[r].collection_results)
                        = SubSeq(run[r].names, 1, run[r].ci - 1)
            /\ run[r].pc = "INDEX" =>
                  /\ run[r].index_cards # <<>>
                  /\ \A i \in 1..Len(run[r].index_cards) :
                        run[r].index_cards[i].collection_name = run[r].names[run[r].ci]
            /\ run[r].pc \in {"RECORD", "DONE"} =>
                  ResultNames(run[r].collection_results) = run[r].names
            /\ Recorded(r) => ResultNames(history[r].collections) = run[r].names)
    /\ [][\A r \in Runs :
            /\ (run[r].pc = "INDEX" /\ run'[r].pc # "INDEX") =>
                  \A i \in 1..Len(run[r].index_cards) :
                      \/ /\ run[r].index_cards[i].collection_id \in DOMAIN index'
                         /\ index'[run[r].index_cards[i].collection_id] = run[r].index_cards[i]
                      \/ run[r].batch_documents[i] \in obs'[r].failed
            /\ obs'[r].reads = obs[r].reads + 1 => run[r].pc = "EXTRACT"
            /\ (run[r].pc \in {"EXTRACT", "INDEX"} /\ run'[r].pc \in {"EXTRACT", "INDEX"}) =>
                  run'[r].ci \in {run[r].ci, run[r].ci + 1}]_vars

\* C16 witness: a sync-all has recorded its SyncRun, with documents synced in
\* both configured collections.
C16_Witness ==
    \E r \in Runs :
        /\ run[r].kind = "all"
        /\ Recorded(r)
        /\ ResultNames(history[r].collections) = <<"bots", "chains">>
        /\ \A i \in 1..2 : history[r].collections[i].count > 0

\* What the Source Reader is to return for collection c and watermark since.
StreamSince(c, since) ==
    IF since = None \/ since = Some(Epoch)
    THEN source[c]
    ELSE SelectSeq(source[c],
                   LAMBDA d : d.last_saved.present /\ d.last_saved.at > since[1])

\* C17: the documents a run reads of a collection are, when its watermark is
\* the 'no prior sync' value (nil or the epoch sentinel), all the documents of
\* the collection, those without a last-modified timestamp included, and
\* otherwise exactly those last modified strictly after the watermark: the
\* reader finds as many as that, and a batch is the first batchSize of them.
C17_ReaderFilter ==
    \A r \in Runs :
        (run[r].pc \in {"EXTRACT", "INDEX"} /\ obs[r].matching # None /\ ~obs[r].srcError) =>
            LET c == run[r].names[run[r].ci]
            IN  /\ obs[r].matching[1] = Len(StreamSince(c, run[r].latest_sync_time))
                /\ run[r].pc = "INDEX" =>
                      run[r].batch_documents
                        = Take(StreamSince(c, run[r].latest_sync_time), batchSize)

\* C18: the sync history is append-only and immutable. Every completed run
\* has added one SyncRun under its own id, the history holds one SyncRun for
\* each completed run and no other, and every SyncRun in it is still the
\* record its run wrote (its id, start time and collection counts), whatever
\* later or overlapping runs have done since.
C18_AppendOnly ==
    /\ \A r \in Runs : run[r].pc = "DONE" => Recorded(r)
    /\ DOMAIN history = {r \in Runs : run[r].pc = "DONE"}
    /\ \A k \in DOMAIN history :
          history[k] = SyncDoc(k, run[k].start_time, run[k].collection_results)

\* Two runs interleave: each read the watermark while the history held no
\* SyncRun, so neither had recorded when the other read.
Overlapped ==
    \A r \in Runs :
        /\ run[r].pc \in {"EXTRACT", "INDEX", "RECORD", "DONE", "ERROR"}
        /\ run[r].names # <<>>
        /\ obs[r].storeTop = None

\* C19: overlapping sync invocations are safe. When two runs have interleaved
\* and both have ended, no failure having occurred, both are completed, the
\* history holds two SyncRuns under distinct ids, one of each run, and the
\* index holds one card per collection_id, stored under that id, with a card
\* for every document of the collections the runs synchronised.
C19_OverlapSafe ==
    (/\ faults = 0
     /\ Overlapped
     /\ \A r \in Runs : run[r].pc \in {"DONE", "ERROR"}) =>
        /\ \A r \in Runs : run[r].pc = "DONE" /\ Recorded(r) /\ history[r].id = r
        /\ Cardinality(DOMAIN history) = Cardinality(Runs)
        /\ \A k \in DOMAIN index : index[k].collection_id = k
        /\ \A r \in Runs : \A i \in 1..Len(run[r].names) :
              \A j \in 1..Len(source[run[r].names[i]]) :
                  source[run[r].names[i]][j].id \in DOMAIN index

\* C21: a collection with zero matching documents ends its batch loop after a
\* single read and without a bulk-upsert call, and the run still has a
\* CollectionResult for it, with the collection's name and count 0.
C21_EmptyCollection ==
    \A r \in Runs :
        \A i \in 1..Len(obs[r].readLog) :
            obs[r].readLog[i].matching = 0 =>
                /\ obs[r].readLog[i].reads = 1
                /\ obs[r].readLog[i].bulks = 0
                /\ i <= Len(run[r].collection_results)
                /\ run[r].collection_results[i].name = run[r].names[i]
                /\ run[r].collection_results[i].count = 0

\* A sync of all collections is recorded, one of its collections having had
\* no matching document and another having had some.
C21_Witness ==
    \E r \in Runs :
        /\ Recorded(r)
        /\ \E i, j \in 1..Len(obs[r].readLog) :
              /\ obs[r].readLog[i].matching = 0
              /\ obs[r].readLog[j].matching > 0
              /\ history[r].collections[i].count = 0

\* The request of the last search_documents call and what it came to.
Searched == reply.value[1]

\* The caller's structured query: the JSON value of the decoded query
\* parameter, when the parameter is given and is JSON.
CallerQuery == json_loads(unquote(Searched.query_param[1]))

Window == {"from", "size"}

\* C22: the Query Engine never queries the index without a caller-supplied
\* criterion. A search with neither a query nor a search text raises
\* SearchError and the index is not invoked; the body of every search that
\* reaches the index is, the result window apart, either the caller's parsed
\* structured query or the text match on the caller's decoded search text,
\* and so never a match-all the caller did not write.
C22_CriterionRequired ==
    reply.op = "search_documents" =>
        /\ (NotGiven(Searched.query_param) /\ NotGiven(Searched.search_param)) =>
              (reply.error = ParameterRequired /\ Searched.sent = None)
        /\ Searched.sent # None =>
              LET body      == Searched.sent[1]
                  criterion == [k \in DOMAIN body \ Window |-> body[k]]
              IN  \/ /\ ~NotGiven(Searched.query_param)
                     /\ CallerQuery.ok
                     /\ CallerQuery.value.kind = "dict"
                     /\ criterion = [k \in DOMAIN CallerQuery.value.items \ Window |->
                                        CallerQuery.value.items[k]]
                  \/ /\ ~NotGiven(Searched.search_param)
                     /\ criterion = MultiMatch(unquote(Searched.search_param[1])).items

\* C29: a structured query is passed through verbatim. When the query
\* parameter is a JSON object, the body sent to the index has the caller's
\* keys and the result window and no other key, the window is
\* from = (page-1)*page_size and size = page_size, and every key the caller
\* supplied (the window's own keys apart) has the value the caller gave it.
C29_Verbatim ==
    (/\ reply.op = "search_documents"
     /\ ~NotGiven(Searched.query_param)
     /\ CallerQuery.ok
     /\ CallerQuery.value.kind = "dict") =>
        /\ Searched.sent # None
        /\ LET body   == Searched.sent[1]
               caller == CallerQuery.value.items
           IN  /\ DOMAIN body = DOMAIN caller \cup Window
               /\ body["from"] = JNum((Searched.page - 1) * Searched.page_size)
               /\ body["size"] = JNum(Searched.page_size)
               /\ \A k \in DOMAIN caller \ Window : body[k] = caller[k]

\* C28: the History Store's page operation is only executed with page >= 1
\* and 1 <= page_size <= 100. For every page, page_size and limit parameter
\* of a request, GET /sync/ either answers 400 without calling the service
\* or calls it with a page of at least 1 and a page size in 1..100.
C28_PageBounds ==
    reply.op = "GET /sync/" =>
        LET request == reply.value[1]
        IN  \/ request.status = 400 /\ request.called = None
            \/ /\ request.called # None
               /\ request.called[1].page >= 1
               /\ request.called[1].page_size >= 1
               /\ request.called[1].page_size <= 100

NegativePeriod == "Sync period must be non-negative"

\* C23: the sync period is a register. The stored period is never negative;
\* a set_sync_periodicity(p) that succeeded is an admin's with p >= 0 and the
\* stored period is p until the next one succeeds (the last write wins); a
\* get_sync_periodicity returns the stored period; a set with p < 0 raises
\* SyncError('Sync period must be non-negative'); and the stored period
\* changes in no step but a set that succeeds.
C23_PeriodRegister ==
    /\ [](period >= 0)
    /\ []((reply.op = "set_sync_periodicity" /\ reply.error = "none") =>
            (IsAdmin(reply.token) /\ period = reply.value[1].sync_period_seconds))
    /\ []((reply.op = "get_sync_periodicity" /\ reply.error = "none") =>
            reply.value[1].sync_period_seconds = period)
    /\ [][(period' # period \/ reply'.error = NegativePeriod) =>
            /\ reply'.op = "set_sync_periodicity"
            /\ (reply'.error = NegativePeriod) = (period' = period)
            /\ (reply'.error = NegativePeriod) \/ (reply'.error = "none")]_vars

\* A get_sync_periodicity has returned a period of 1, set since the start.
C23_Witness ==
    /\ reply.op = "get_sync_periodicity"
    /\ reply.error = "none"
    /\ reply.value[1].sync_period_seconds = 1
    /\ period = 1

\* The start time of the most recent pull sync (sync-all or sync-one) of the
\* history other than r itself; the beginning of time when there is none.
LastPullStart(r) ==
    LET starts == {history[k].started_at.iso : k \in (DOMAIN history \cap Runs) \ {r}}
    IN  IF starts = {} THEN Epoch
        ELSE CHOOSE t \in starts : \A u \in starts : u <= t

\* C25: index_documents does not move the pull-sync watermark. In a sync
\* called after any index_documents calls, no failure having occurred, every
\* document of a collection it synchronises that was last modified after
\* the start of the last pull sync is selected by the run's filter.
C25_IndexKeepsWatermark ==
    \A r \in Runs :
        (run[r].pc \in {"EXTRACT", "INDEX", "RECORD", "DONE"} /\ faults = 0) =>
            \A i \in 1..Len(run[r].names) :
                \A j \in 1..Len(source[run[r].names[i]]) :
                    LET d == source[run[r].names[i]][j]
                    IN  (d.last_saved.present /\ d.last_saved.at > LastPullStart(r))
                            => Matches(d, run[r].latest_sync_time)

\* The batches of the bulk calls an index_documents call made, end to end.
RECURSIVE Submitted(_)
Submitted(calls) ==
    IF calls = <<>> THEN <<>>
    ELSE Submitted(SubSeq(calls, 1, Len(calls) - 1)) \o calls[Len(calls)].batch

RECURSIVE Successes(_)
Successes(calls) ==
    IF calls = <<>> THEN 0
    ELSE Successes(SubSeq(calls, 1, Len(calls) - 1)) + calls[Len(calls)].success

\* C30: index_documents by an admin, over the n cards it built and a batch
\* size B >= 1, makes ceil(n/B) bulk calls, none of more than B cards; the
\* batches end to end are the n cards in input order (so every card is in
\* exactly one call); and the count returned, and the count recorded when
\* the history write succeeds, is the sum of the successes the bulk calls
\* reported.
C30_IndexBatches ==
    (reply.op = "index_documents" /\ reply.error = "none") =>
        LET result == reply.value[1]
            calls  == reply.value[2].calls
            cards  == reply.value[2].cards
            n      == Len(cards)
        IN  /\ Len(calls) * batchSize >= n
            /\ (Len(calls) - 1) * batchSize < n \/ Len(calls) = 0
            /\ \A k \in 1..Len(calls) :
                  Len(calls[k].batch) >= 1 /\ Len(calls[k].batch) <= batchSize
            /\ Submitted(calls) = cards
            /\ result.collections[1].count = Successes(calls)
            /\ \A k \in DOMAIN history :
                  history[k].collections[1].count = Successes(calls)

\* Five cards in batches of two: three bulk calls, the last of one card, one
\* card refused by the index, four counted and recorded.
C30_Witness ==
    /\ reply.op = "index_documents"
    /\ reply.error = "none"
    /\ batchSize = 2
    /\ Len(reply.value[2].cards) = 5
    /\ Len(reply.value[2].calls) = 3
    /\ Len(reply.value[2].calls[3].batch) = 1
    /\ reply.value[1].collections[1].count = 4
    /\ \E k \in DOMAIN history : history[k].collections[1].count = 4

\* C26: the watermark is monotone. A run that reads its watermark when the
\* History Store holds SyncRuns computes a watermark at or after the
\* start_time of every one of them (storeTop is the latest of these start
\* times at the read), whatever the state of the connection to the store.
C26_WatermarkMonotone ==
    \A r \in Runs :
        (run[r].pc \in {"EXTRACT", "INDEX", "RECORD", "DONE"} /\ obs[r].storeTop # None) =>
            /\ run[r].latest_sync_time # None
            /\ run[r].latest_sync_time[1] >= obs[r].storeTop[1]

\* C24: with two overlapping sync runs and a writer of the source, once both
\* runs have completed and been recorded, the card of a document is not a
\* card of an older version of it, when both runs synchronised the
\* document's collection and its current version was saved before the final
\* watermark (so before the later run started and read it): the slower run
\* has not put its stale card over the newer card of the faster one.
C24_NoStaleCard ==
    (Overlapped /\ \A r \in Runs : run[r].pc = "DONE" /\ Recorded(r)) =>
        \A c \in Collections : \A i \in 1..Len(source[c]) :
            LET d == source[c][i]
            IN  (/\ \A r \in Runs : c \in Range(run[r].names)
                 /\ d.last_saved.present
                 /\ d.last_saved.at < Watermark[1]
                 /\ d.id \in DOMAIN index)
                    => index[d.id].payload.last_saved.at >= d.last_saved.at

\* C27: a run takes its start_time before it reads anything, so a document
\* of a collection it synchronises that is saved again after that, with a last-modified time after the start_time of
\* every run that had started by then, is not lost once the run is recorded:
\* when no run is in progress, the filter of the next run (on the watermark
\* of the History Store) selects it, unless its current version already has
\* its card in the index.
C27_LateWriteSelected ==
    (\A q \in Runs : run[q].pc \in {"IDLE", "DONE"}) =>
        \A r \in Runs : Recorded(r) =>
            \A c \in Collections : \A i \in 1..Len(source[c]) :
                LET d == source[c][i]
                IN  (/\ \E k \in 1..Len(run[r].names) : run[r].names[k] = c
                     /\ d.id \in obs[r].written
                     /\ \A q \in Runs :
                           d.id \in obs[q].written => d.last_saved.at > run[q].start_time)
                        => \/ Matches(d, Watermark)
                           \/ /\ d.id \in DOMAIN index
                              /\ index[d.id].payload.last_saved.at = d.last_saved.at

====
